---- MODULE Spec2Model ----
(***************************************************************************)
(* Model of pyrit/prompt_normalizer/prompt_normalizer.py:                  *)
(* PromptNormalizer.send_prompt_async (one dispatch),                      *)
(* send_prompt_batch_to_target_async (the batch), convert_values,          *)
(* _calc_hash_and_add_request_to_memory and _build_prompt_request_response.*)
(*                                                                         *)
(* Text is a sequence of character codes (<<>> is the empty string "").    *)
(* Every call of send_prompt_async is a "call" c with its own program      *)
(* counter pc[c]; memory[c] is the list of records that call c handed to   *)
(* the memory's add_request_response_to_memory, in order.                  *)
(***************************************************************************)
EXTENDS Integers, Sequences, FiniteSets, TLC

VARIABLES
    args,        \* call -> keyword arguments of send_prompt_async
    pc,          \* call -> position in send_prompt_async
    request,     \* call -> the built request (sequence of pieces)
    response,    \* call -> local variable `response` (<<>> is None)
    ex,          \* call -> the exception bound by `except Exception as ex`
    error_response, \* call -> local variable `error_response`
    raised,      \* call -> the exception that left send_prompt_async
    result,      \* call -> the value send_prompt_async returned
    outcome,     \* call -> what the target's send_prompt_async did
    sends,       \* call -> number of times target.send_prompt_async was called
    memory,      \* call -> records handed to add_request_response_to_memory
    attempts,    \* call -> calls of _calc_hash_and_add_request_to_memory(request)
    faults,      \* hash / memory failures the environment may still inject
    target,      \* the prompt target: the outcomes its send_prompt_async has
    nextUuid,    \* number of uuid4() values drawn so far
    requests,    \* the batch's list of NormalizerRequest
    batch_size,  \* the batch's batch_size argument
    policy,      \* failure policy of the batching helper
    batchPc,     \* position of send_prompt_batch_to_target_async
    results,     \* index -> what the batching helper collected for the item
    batchOut,    \* what send_prompt_batch_to_target_async returned or raised
    outOfOrder,  \* history: an item finished before an earlier item did
    conversion   \* one call of convert_values: its arguments and progress

vars == <<args, pc, request, response, ex, error_response, raised, result,
          outcome, sends, memory, attempts, faults, target, nextUuid,
          requests, batch_size, policy, batchPc, results, batchOut,
          outOfOrder, conversion>>

callVars == <<args, pc, request, response, ex, error_response, raised, result,
              outcome, sends, memory, attempts, faults, target, nextUuid>>

batchVars == <<requests, batch_size, policy, batchPc, results, batchOut,
               outOfOrder>>

-----------------------------------------------------------------------------
(* Bounds of the model *)

\* Longest seed prompt group of a single dispatch.
MaxPrompts == 2
\* Hash or memory failures the environment injects into one run.
MaxFaults == 2
\* Longest request list of a batch.
MaxRequests == 3
\* Largest batch_size of a batch.
MaxBatchSize == 2
\* Longest converter configuration list of one call of convert_values.
MaxConfigurations == 2

-----------------------------------------------------------------------------
(* Values *)

NoneId == <<"None", <<>>>>
EmptyStrId == <<"str", <<>>>>
CallerId(n) == <<"str", <<n>>>>
Uuid(n) == <<"uuid", <<n>>>>

NoError == [origin |-> "none", msg |-> <<>>]
\* str(ex) of the exceptions of the model
QuotaExceeded == [origin |-> "endpoint", msg |-> <<3, 4>>]
Timeout == [origin |-> "endpoint", msg |-> <<5>>]
EmptyResponseException == [origin |-> "endpoint_empty", msg |-> <<6>>]
HashError == [origin |-> "hash", msg |-> <<7>>]
MemoryError == [origin |-> "memory", msg |-> <<8>>]
ConverterError == [origin |-> "converter", msg |-> <<9>>]
CancelledError == [origin |-> "cancelled", msg |-> <<>>]

\* the reverse of a text (what the flip converter computes)
RECURSIVE Reverse(_)
Reverse(s) == IF s = <<>> THEN <<>> ELSE Reverse(Tail(s)) \o <<Head(s)>>

\* sha256 over a text, as a polynomial hash of its character codes
RECURSIVE HashInt(_, _)
HashInt(s, h) == IF s = <<>> THEN h ELSE HashInt(Tail(s), (h * 31 + Head(s)) % 251)

Sha256(value) == <<HashInt(value, 7)>>

NoHash == <<>>

\* PromptRequestPiece(...) as _build_prompt_request_response constructs it:
\* converted value and type start as the original value and type.
PromptRequestPiece(role, value, data_type, conversation_id, sequence) ==
    [role |-> role,
     original_value |-> value,
     original_value_data_type |-> data_type,
     converted_value |-> value,
     converted_value_data_type |-> data_type,
     conversation_id |-> conversation_id,
     sequence |-> sequence,
     converter_identifiers |-> <<>>,
     converted_value_sha256 |-> NoHash,
     response_error |-> "none"]

\* construct_response_from_request(request=piece, response_text_pieces=[text],
\* response_type=..., error=...): one assistant piece per text, in the
\* conversation of the request piece.
construct_response_from_request(piece, text, response_type, error) ==
    << [PromptRequestPiece("assistant", text, response_type,
                           piece.conversation_id, piece.sequence)
           EXCEPT !.response_error = error] >>

\* piece.set_sha256_values_async()
set_sha256_values(piece) ==
    [piece EXCEPT !.converted_value_sha256 = Sha256(piece.converted_value)]

-----------------------------------------------------------------------------
(* Converters: the capability convert_tokens_async(prompt, input_type)     *)

Supported(converter) ==
    CASE converter = "suffix" -> {"text"}
      [] converter = "flip" -> {"text"}
      [] converter = "to_image" -> {"text"}
      [] converter = "audio" -> {"audio_path"}

\* converter.convert_tokens_async: a converter raises on an input type it
\* does not support; the prompts of the model hold no start/end token, so
\* the whole prompt is converted.
convert_tokens(converter, prompt, input_type) ==
    IF input_type \notin Supported(converter)
    THEN [ok |-> FALSE, output_text |-> prompt, output_type |-> input_type]
    ELSE CASE converter = "suffix" ->
                [ok |-> TRUE, output_text |-> prompt \o <<1>>, output_type |-> "text"]
           [] converter = "flip" ->
                [ok |-> TRUE, output_text |-> Reverse(prompt), output_type |-> "text"]
           [] converter = "to_image" ->
                [ok |-> TRUE, output_text |-> <<2>> \o prompt, output_type |-> "image_path"]

\* converter.get_identifier()
get_identifier(converter) == converter

PromptConverterConfiguration(converters, indexes, data_types) ==
    [converters |-> converters,
     indexes_to_apply |-> indexes,
     prompt_data_types_to_apply |-> data_types]

\* an inner loop that runs the converters of a chain last to first
RECURSIVE RunConverters_Reversed(_, _, _)
RunConverters_Reversed(converters, converted_text, converted_text_data_type) ==
    IF converters = <<>>
    THEN [ok |-> TRUE, output_text |-> converted_text,
          output_type |-> converted_text_data_type]
    ELSE LET converter_result ==
                 convert_tokens(converters[Len(converters)], converted_text,
                                converted_text_data_type)
         IN  IF ~converter_result.ok
             THEN converter_result
             ELSE RunConverters_Reversed(SubSeq(converters, 1, Len(converters) - 1),
                                         converter_result.output_text,
                                         converter_result.output_type)

\* the inner loop `for converter in converter_configuration.converters`
RECURSIVE RunConverters(_, _, _)
RunConverters(converters, converted_text, converted_text_data_type) ==
    IF converters = <<>>
    THEN [ok |-> TRUE, output_text |-> converted_text,
          output_type |-> converted_text_data_type]
    ELSE LET converter_result ==
                 convert_tokens(Head(converters), converted_text,
                                converted_text_data_type)
         IN  IF ~converter_result.ok
             THEN converter_result
             ELSE RunConverters(Tail(converters), converter_result.output_text,
                                converter_result.output_type)

Identifiers(converters) ==
    [k \in 1..Len(converters) |-> get_identifier(converters[k])]

\* a filter that looks at the data type the piece had originally
FilterMatches_OriginalType(converter_configuration, piece_index, piece) ==
    LET indexes == converter_configuration.indexes_to_apply
        data_types == converter_configuration.prompt_data_types_to_apply
    IN  /\ ~(indexes # {} /\ piece_index \notin indexes)
        /\ ~(data_types # {} /\ piece.original_value_data_type \notin data_types)

\* whether the configuration's filter lets the piece through
FilterMatches(converter_configuration, piece_index, piece) ==
    LET indexes == converter_configuration.indexes_to_apply
        data_types == converter_configuration.prompt_data_types_to_apply
    IN  /\ ~(indexes # {} /\ piece_index \notin indexes)
        /\ ~(data_types # {} /\ piece.converted_value_data_type \notin data_types)

\* the body of the loop over the pieces, for one piece
ConvertPiece(converter_configuration, piece_index, piece) ==
    IF ~FilterMatches(converter_configuration, piece_index, piece)
    THEN [piece |-> piece, ok |-> TRUE]
    ELSE LET extended ==
                 [piece EXCEPT !.converter_identifiers =
                      @ \o Identifiers(converter_configuration.converters)]
             r == RunConverters(converter_configuration.converters,
                                piece.converted_value,
                                piece.converted_value_data_type)
         IN  IF r.ok
             THEN [piece |-> [extended EXCEPT
                                  !.converted_value = r.output_text,
                                  !.converted_value_data_type = r.output_type],
                   ok |-> TRUE]
             ELSE [piece |-> extended, ok |-> FALSE]

\* `for piece_index, piece in enumerate(request_response.request_pieces)`,
\* from the piece at (1-based) position k on
RECURSIVE ConvertPieces(_, _, _)
ConvertPieces(converter_configuration, pieces, k) ==
    IF k > Len(pieces)
    THEN [pieces |-> pieces, ok |-> TRUE]
    ELSE LET r == ConvertPiece(converter_configuration, k - 1, pieces[k])
             next == [pieces EXCEPT ![k] = r.piece]
         IN  IF r.ok
             THEN ConvertPieces(converter_configuration, next, k + 1)
             ELSE [pieces |-> next, ok |-> FALSE]

\* convert_values: the pieces as the call leaves them, and whether it
\* returned (ok) or a converter raised
RECURSIVE convert_values(_, _)
convert_values(converter_configurations, pieces) ==
    IF converter_configurations = <<>>
    THEN [pieces |-> pieces, ok |-> TRUE]
    ELSE LET r == ConvertPieces(Head(converter_configurations), pieces, 1)
         IN  IF r.ok
             THEN convert_values(Tail(converter_configurations), r.pieces)
             ELSE r

-----------------------------------------------------------------------------
(* _build_prompt_request_response *)

Truthy(conversation_id) ==
    conversation_id # NoneId /\ conversation_id # EmptyStrId

\* a build that ignores the caller's conversation id
ResolveConversationId_Always(conversation_id, uuid) == uuid

\* `conversation_id if conversation_id else str(uuid4())`
ResolveConversationId(conversation_id, uuid) ==
    IF Truthy(conversation_id) THEN conversation_id ELSE uuid

\* the entries list: one piece per seed prompt, in group order
Entries(seed_prompt_group, conversation_id, sequence) ==
    [k \in 1..Len(seed_prompt_group) |->
        PromptRequestPiece("user", seed_prompt_group[k].value,
                           seed_prompt_group[k].data_type,
                           conversation_id, sequence)]

\* the request _build_prompt_request_response makes of the arguments a,
\* with uuid the value uuid4() gives
build_prompt_request_response(a, uuid) ==
    convert_values(a.request_converter_configurations,
                   Entries(a.seed_prompt_group,
                           ResolveConversationId(a.conversation_id, uuid),
                           a.sequence))

-----------------------------------------------------------------------------
(* _calc_hash_and_add_request_to_memory *)

\* what the environment may do to one call of
\* _calc_hash_and_add_request_to_memory: nothing, fail a piece's
\* set_sha256_values_async, or fail add_request_response_to_memory
PersistFaults == IF faults > 0 THEN {"ok", "hash", "memory"} ELSE {"ok"}

HashAll(pieces) == [k \in 1..Len(pieces) |-> set_sha256_values(pieces[k])]

\* a persistence step that adds the pieces before their hashes are set
calc_hash_and_add_request_to_memory_unhashed(pieces, mem, f) ==
    CASE f = "hash" ->
            [pieces |-> pieces, memory |-> mem, error |-> HashError]
      [] f = "memory" ->
            [pieces |-> HashAll(pieces), memory |-> mem, error |-> MemoryError]
      [] f = "ok" ->
            [pieces |-> HashAll(pieces),
             memory |-> Append(mem, pieces),
             error |-> NoError]

\* _calc_hash_and_add_request_to_memory(request=pieces) against the records
\* mem, under fault f: the pieces and the records afterwards, and the
\* exception raised (NoError when it returns)
calc_hash_and_add_request_to_memory(pieces, mem, f) ==
    CASE f = "hash" ->
            [pieces |-> pieces, memory |-> mem, error |-> HashError]
      [] f = "memory" ->
            [pieces |-> HashAll(pieces), memory |-> mem, error |-> MemoryError]
      [] f = "ok" ->
            [pieces |-> HashAll(pieces),
             memory |-> Append(mem, HashAll(pieces)),
             error |-> NoError]

FaultsAfter(f) == IF f = "ok" THEN faults ELSE faults - 1

-----------------------------------------------------------------------------
(* The prompt target *)

\* a target that answers each request piece with its converted value
Echo(pieces) ==
    [k \in 1..Len(pieces) |->
        PromptRequestPiece("assistant", pieces[k].converted_value,
                           pieces[k].converted_value_data_type,
                           pieces[k].conversation_id, pieces[k].sequence)]

\* a target that answers with one text piece
Answer(pieces) ==
    << PromptRequestPiece("assistant", <<4>>, "text",
                          pieces[1].conversation_id, pieces[1].sequence) >>

Responded(pieces) == [kind |-> "response", response |-> pieces, error |-> NoError]
Failed(e) == [kind |-> "failure", response |-> <<>>, error |-> e]
ReturnedNone == [kind |-> "none", response |-> <<>>, error |-> NoError]
SignalledEmpty == [kind |-> "empty", response |-> <<>>, error |-> EmptyResponseException]
NotSent == [kind |-> "not_sent", response |-> <<>>, error |-> NoError]

\* the outcomes target.send_prompt_async(prompt_request=pieces) can have
TargetOutcomes(pieces) ==
    CASE target = "any" ->
            {Responded(Echo(pieces)), Responded(Answer(pieces)), ReturnedNone,
             SignalledEmpty, Failed(QuotaExceeded), Failed(Timeout)}
      [] target = "echo_or_quota" ->
            {Responded(Echo(pieces)), Failed(QuotaExceeded)}
      [] target = "echo_or_empty" ->
            {Responded(Echo(pieces)), SignalledEmpty}

-----------------------------------------------------------------------------
(* send_prompt_async *)

Calls == DOMAIN pc

\* the calls a run can hold
CallIds == 1..MaxRequests

\* the positions at which send_prompt_async is suspended in an await
Suspended == {"awaiting", "persist_try", "except_empty", "except",
              "except_error", "after_try", "persist_response"}

Terminated == {"returned", "raised", "cancelled"}

\* a build that persists the partly converted request when a request
\* converter raises
Build_PersistsOnError(c) ==
    /\ c \in Calls
    /\ pc[c] = "build"
    /\ LET r == build_prompt_request_response(args[c], Uuid(nextUuid))
       IN  /\ nextUuid' = IF Truthy(args[c].conversation_id)
                          THEN nextUuid ELSE nextUuid + 1
           /\ IF r.ok
              THEN /\ request' = [request EXCEPT ![c] = r.pieces]
                   /\ sends' = [sends EXCEPT ![c] = @ + 1]
                   /\ pc' = [pc EXCEPT ![c] = "awaiting"]
                   /\ UNCHANGED <<raised, memory>>
              ELSE /\ raised' = [raised EXCEPT ![c] = ConverterError]
                   /\ pc' = [pc EXCEPT ![c] = "raised"]
                   /\ memory' = [memory EXCEPT ![c] = Append(@, HashAll(r.pieces))]
                   /\ UNCHANGED <<request, sends>>
    /\ UNCHANGED <<args, response, ex, error_response, result, outcome,
                   attempts, faults, target>>
    /\ UNCHANGED <<batchVars, conversion>>

\* a build that persists the request before it calls the target
Build_PersistsBeforeSend(c) ==
    /\ c \in Calls
    /\ pc[c] = "build"
    /\ LET r == build_prompt_request_response(args[c], Uuid(nextUuid))
       IN  /\ nextUuid' = IF Truthy(args[c].conversation_id)
                          THEN nextUuid ELSE nextUuid + 1
           /\ IF r.ok
              THEN /\ request' = [request EXCEPT ![c] = HashAll(r.pieces)]
                   /\ memory' = [memory EXCEPT ![c] = Append(@, HashAll(r.pieces))]
                   /\ sends' = [sends EXCEPT ![c] = @ + 1]
                   /\ pc' = [pc EXCEPT ![c] = "awaiting"]
                   /\ UNCHANGED raised
              ELSE /\ raised' = [raised EXCEPT ![c] = ConverterError]
                   /\ pc' = [pc EXCEPT ![c] = "raised"]
                   /\ UNCHANGED <<request, sends, memory>>
    /\ UNCHANGED <<args, response, ex, error_response, result, outcome,
                   attempts, faults, target>>
    /\ UNCHANGED <<batchVars, conversion>>

\* lines 72-85: build the request and call the target
Build(c) ==
    /\ c \in Calls
    /\ pc[c] = "build"
    /\ LET r == build_prompt_request_response(args[c], Uuid(nextUuid))
       IN  /\ nextUuid' = IF Truthy(args[c].conversation_id)
                          THEN nextUuid ELSE nextUuid + 1
           /\ IF r.ok
              THEN /\ request' = [request EXCEPT ![c] = r.pieces]
                   /\ sends' = [sends EXCEPT ![c] = @ + 1]
                   /\ pc' = [pc EXCEPT ![c] = "awaiting"]
                   /\ UNCHANGED raised
              ELSE /\ raised' = [raised EXCEPT ![c] = ConverterError]
                   /\ pc' = [pc EXCEPT ![c] = "raised"]
                   /\ UNCHANGED <<request, sends>>
    /\ UNCHANGED <<args, response, ex, error_response, result, outcome,
                   memory, attempts, faults, target>>
    /\ UNCHANGED <<batchVars, conversion>>

\* line 85: the target's send_prompt_async returns or raises
TargetCompletes(c) ==
    /\ c \in Calls
    /\ pc[c] = "awaiting"
    /\ \E o \in TargetOutcomes(request[c]) :
          /\ outcome' = [outcome EXCEPT ![c] = o]
          /\ response' = [response EXCEPT ![c] = o.response]
          /\ ex' = [ex EXCEPT ![c] = IF o.kind = "failure" THEN o.error ELSE @]
          /\ pc' = [pc EXCEPT ![c] =
                       CASE o.kind \in {"response", "none"} -> "persist_try"
                         [] o.kind = "empty" -> "except_empty"
                         [] o.kind = "failure" -> "except"]
    /\ UNCHANGED <<args, request, error_response, raised, result, sends,
                   memory, attempts, faults, target, nextUuid>>
    /\ UNCHANGED <<batchVars, conversion>>

\* a try block without line 86
PersistRequestInTry_Skip(c) ==
    /\ c \in Calls
    /\ pc[c] = "persist_try"
    /\ pc' = [pc EXCEPT ![c] = "after_try"]
    /\ UNCHANGED <<args, request, response, ex, error_response, raised, result,
                   outcome, sends, memory, attempts, faults, target, nextUuid>>
    /\ UNCHANGED <<batchVars, conversion>>

\* line 86: the request is hashed and added to memory inside the try; what
\* this raises is caught by `except Exception`
PersistRequestInTry(c) ==
    /\ c \in Calls
    /\ pc[c] = "persist_try"
    /\ \E f \in PersistFaults :
          LET r == calc_hash_and_add_request_to_memory(request[c], memory[c], f)
          IN  /\ request' = [request EXCEPT ![c] = r.pieces]
              /\ memory' = [memory EXCEPT ![c] = r.memory]
              /\ attempts' = [attempts EXCEPT ![c] = @ + 1]
              /\ faults' = FaultsAfter(f)
              /\ ex' = [ex EXCEPT ![c] = IF r.error = NoError THEN @ ELSE r.error]
              /\ pc' = [pc EXCEPT ![c] =
                           IF r.error = NoError THEN "after_try" ELSE "except"]
    /\ UNCHANGED <<args, response, error_response, raised, result, outcome,
                   sends, target, nextUuid>>
    /\ UNCHANGED <<batchVars, conversion>>

\* a handler of EmptyResponseException that persists the request and then
\* re-raises
ExceptEmpty_Reraise(c) ==
    /\ c \in Calls
    /\ pc[c] = "except_empty"
    /\ \E f \in PersistFaults :
          LET r == calc_hash_and_add_request_to_memory(request[c], memory[c], f)
          IN  /\ request' = [request EXCEPT ![c] = r.pieces]
              /\ memory' = [memory EXCEPT ![c] = r.memory]
              /\ attempts' = [attempts EXCEPT ![c] = @ + 1]
              /\ faults' = FaultsAfter(f)
              /\ raised' = [raised EXCEPT ![c] =
                               IF r.error = NoError
                               THEN EmptyResponseException ELSE r.error]
              /\ pc' = [pc EXCEPT ![c] = "raised"]
    /\ UNCHANGED <<args, response, ex, error_response, result, outcome, sends,
                   target, nextUuid>>
    /\ UNCHANGED <<batchVars, conversion>>

\* a handler of EmptyResponseException that sends the request again
ExceptEmpty_Retry(c) ==
    /\ c \in Calls
    /\ pc[c] = "except_empty"
    /\ sends' = [sends EXCEPT ![c] = @ + 1]
    /\ pc' = [pc EXCEPT ![c] = "awaiting"]
    /\ UNCHANGED <<args, request, response, ex, error_response, raised, result,
                   outcome, memory, attempts, faults, target, nextUuid>>
    /\ UNCHANGED <<batchVars, conversion>>

\* lines 87-96: the handler of EmptyResponseException; what it raises leaves
\* send_prompt_async
ExceptEmpty(c) ==
    /\ c \in Calls
    /\ pc[c] = "except_empty"
    /\ \E f \in PersistFaults :
          LET r == calc_hash_and_add_request_to_memory(request[c], memory[c], f)
          IN  /\ request' = [request EXCEPT ![c] = r.pieces]
              /\ memory' = [memory EXCEPT ![c] = r.memory]
              /\ attempts' = [attempts EXCEPT ![c] = @ + 1]
              /\ faults' = FaultsAfter(f)
              /\ IF r.error = NoError
                 THEN /\ response' = [response EXCEPT ![c] =
                             construct_response_from_request(
                                 request[c][1], <<>>, "text", "empty")]
                      /\ pc' = [pc EXCEPT ![c] = "after_try"]
                      /\ UNCHANGED raised
                 ELSE /\ raised' = [raised EXCEPT ![c] = r.error]
                      /\ pc' = [pc EXCEPT ![c] = "raised"]
                      /\ UNCHANGED response
    /\ UNCHANGED <<args, ex, error_response, result, outcome, sends, target,
                   nextUuid>>
    /\ UNCHANGED <<batchVars, conversion>>

\* lines 98-107: the handler of Exception persists the request and builds
\* the error response
ExceptPersistRequest(c) ==
    /\ c \in Calls
    /\ pc[c] = "except"
    /\ \E f \in PersistFaults :
          LET r == calc_hash_and_add_request_to_memory(request[c], memory[c], f)
          IN  /\ request' = [request EXCEPT ![c] = r.pieces]
              /\ memory' = [memory EXCEPT ![c] = r.memory]
              /\ attempts' = [attempts EXCEPT ![c] = @ + 1]
              /\ faults' = FaultsAfter(f)
              /\ IF r.error = NoError
                 THEN /\ error_response' = [error_response EXCEPT ![c] =
                             construct_response_from_request(
                                 request[c][1], ex[c].msg, "error", "processing")]
                      /\ pc' = [pc EXCEPT ![c] = "except_error"]
                      /\ UNCHANGED raised
                 ELSE /\ raised' = [raised EXCEPT ![c] = r.error]
                      /\ pc' = [pc EXCEPT ![c] = "raised"]
                      /\ UNCHANGED error_response
    /\ UNCHANGED <<args, response, ex, result, outcome, sends, target, nextUuid>>
    /\ UNCHANGED <<batchVars, conversion>>

\* a handler that re-raises without persisting the error response
ExceptPersistError_Skip(c) ==
    /\ c \in Calls
    /\ pc[c] = "except_error"
    /\ raised' = [raised EXCEPT ![c] = ex[c]]
    /\ pc' = [pc EXCEPT ![c] = "raised"]
    /\ UNCHANGED <<args, request, response, ex, error_response, result,
                   outcome, sends, memory, attempts, faults, target, nextUuid>>
    /\ UNCHANGED <<batchVars, conversion>>

\* lines 109-110: the error response is persisted and the exception re-raised
ExceptPersistError(c) ==
    /\ c \in Calls
    /\ pc[c] = "except_error"
    /\ \E f \in PersistFaults :
          LET r == calc_hash_and_add_request_to_memory(
                       error_response[c], memory[c], f)
          IN  /\ error_response' = [error_response EXCEPT ![c] = r.pieces]
              /\ memory' = [memory EXCEPT ![c] = r.memory]
              /\ faults' = FaultsAfter(f)
              /\ raised' = [raised EXCEPT ![c] =
                               IF r.error = NoError THEN ex[c] ELSE r.error]
              /\ pc' = [pc EXCEPT ![c] = "raised"]
    /\ UNCHANGED <<args, request, response, ex, result, outcome, sends,
                   attempts, target, nextUuid>>
    /\ UNCHANGED <<batchVars, conversion>>

\* a send_prompt_async that skips the response converters
AfterTry_NoConvert(c) ==
    /\ c \in Calls
    /\ pc[c] = "after_try"
    /\ IF response[c] = <<>>
       THEN /\ result' = [result EXCEPT ![c] = <<>>]
            /\ pc' = [pc EXCEPT ![c] = "returned"]
       ELSE /\ pc' = [pc EXCEPT ![c] = "persist_response"]
            /\ UNCHANGED result
    /\ UNCHANGED <<args, request, response, raised, ex, error_response, outcome,
                   sends, memory, attempts, faults, target, nextUuid>>
    /\ UNCHANGED <<batchVars, conversion>>

\* a send_prompt_async whose try block also holds the response converters:
\* what they raise goes to `except Exception`
AfterTry_InsideTry(c) ==
    /\ c \in Calls
    /\ pc[c] = "after_try"
    /\ IF response[c] = <<>>
       THEN /\ result' = [result EXCEPT ![c] = <<>>]
            /\ pc' = [pc EXCEPT ![c] = "returned"]
            /\ UNCHANGED <<response, ex>>
       ELSE LET r == convert_values(args[c].response_converter_configurations,
                                    response[c])
            IN  /\ response' = [response EXCEPT ![c] = r.pieces]
                /\ ex' = [ex EXCEPT ![c] = IF r.ok THEN @ ELSE ConverterError]
                /\ pc' = [pc EXCEPT ![c] =
                             IF r.ok THEN "persist_response" ELSE "except"]
                /\ UNCHANGED result
    /\ UNCHANGED <<args, request, raised, error_response, outcome, sends, memory,
                   attempts, faults, target, nextUuid>>
    /\ UNCHANGED <<batchVars, conversion>>

\* lines 112-115: None is returned as it is; any other response goes
\* through the response converters
AfterTry(c) ==
    /\ c \in Calls
    /\ pc[c] = "after_try"
    /\ IF response[c] = <<>>
       THEN /\ result' = [result EXCEPT ![c] = <<>>]
            /\ pc' = [pc EXCEPT ![c] = "returned"]
            /\ UNCHANGED <<response, raised>>
       ELSE LET r == convert_values(args[c].response_converter_configurations,
                                    response[c])
            IN  /\ response' = [response EXCEPT ![c] = r.pieces]
                /\ IF r.ok
                   THEN /\ pc' = [pc EXCEPT ![c] = "persist_response"]
                        /\ UNCHANGED raised
                   ELSE /\ raised' = [raised EXCEPT ![c] = ConverterError]
                        /\ pc' = [pc EXCEPT ![c] = "raised"]
                /\ UNCHANGED result
    /\ UNCHANGED <<args, request, ex, error_response, outcome, sends, memory,
                   attempts, faults, target, nextUuid>>
    /\ UNCHANGED <<batchVars, conversion>>

\* lines 117-118: the response is hashed, persisted and returned
PersistResponse(c) ==
    /\ c \in Calls
    /\ pc[c] = "persist_response"
    /\ \E f \in PersistFaults :
          LET r == calc_hash_and_add_request_to_memory(response[c], memory[c], f)
          IN  /\ response' = [response EXCEPT ![c] = r.pieces]
              /\ memory' = [memory EXCEPT ![c] = r.memory]
              /\ faults' = FaultsAfter(f)
              /\ IF r.error = NoError
                 THEN /\ result' = [result EXCEPT ![c] = r.pieces]
                      /\ pc' = [pc EXCEPT ![c] = "returned"]
                      /\ UNCHANGED raised
                 ELSE /\ raised' = [raised EXCEPT ![c] = r.error]
                      /\ pc' = [pc EXCEPT ![c] = "raised"]
                      /\ UNCHANGED result
    /\ UNCHANGED <<args, request, ex, error_response, outcome, sends, attempts,
                   target, nextUuid>>
    /\ UNCHANGED <<batchVars, conversion>>

\* asyncio delivers CancelledError at the await the call is suspended in;
\* CancelledError is a BaseException, which neither `except
\* EmptyResponseException` nor `except Exception` (lines 87, 98) catches
Cancelled(c) ==
    /\ pc' = [pc EXCEPT ![c] = "cancelled"]
    /\ raised' = [raised EXCEPT ![c] = CancelledError]
    /\ UNCHANGED <<args, request, response, ex, error_response, result,
                   outcome, sends, memory, attempts, faults, target, nextUuid>>

\* the caller cancels the task that runs send_prompt_async (a timeout)
CallerCancels(c) ==
    /\ c \in Calls
    /\ pc[c] \in Suspended
    /\ Cancelled(c)
    /\ UNCHANGED <<batchVars, conversion>>

-----------------------------------------------------------------------------
(* One call of send_prompt_async *)

DefaultSequence == -1

SeedPrompts == {[value |-> <<1>>, data_type |-> "text"],
                [value |-> <<2, 3>>, data_type |-> "image_path"]}

SeedPromptGroups ==
    UNION {[1..n -> SeedPrompts] : n \in 1..MaxPrompts}

ConversationIds == {NoneId, EmptyStrId, CallerId(1)}

\* the converter configuration lists a caller passes
ConfigurationLists ==
    { <<>>,
      << PromptConverterConfiguration(<<"suffix", "flip">>, {}, {"text"}) >>,
      << PromptConverterConfiguration(<<"to_image">>, {0}, {}),
         PromptConverterConfiguration(<<"suffix">>, {}, {}) >> }

Arguments ==
    [seed_prompt_group : SeedPromptGroups,
     conversation_id : ConversationIds,
     request_converter_configurations : ConfigurationLists,
     response_converter_configurations : ConfigurationLists,
     sequence : {DefaultSequence}]

\* no call of convert_values is followed on its own
NoConversion ==
    [converter_configurations |-> <<>>, input |-> <<>>, pieces |-> <<>>,
     before |-> <<>>, done |-> 0, status |-> "none"]

NoBatch ==
    /\ requests = <<>>
    /\ batch_size = 0
    /\ policy = "none"
    /\ batchPc = "none"
    /\ results = <<>>
    /\ batchOut = [kind |-> "none", value |-> <<>>, error |-> NoError]
    /\ outOfOrder = FALSE

InitCalls(n, first) ==
    /\ pc = [c \in 1..n |-> first]
    /\ request = [c \in 1..n |-> <<>>]
    /\ response = [c \in 1..n |-> <<>>]
    /\ ex = [c \in 1..n |-> NoError]
    /\ error_response = [c \in 1..n |-> <<>>]
    /\ raised = [c \in 1..n |-> NoError]
    /\ result = [c \in 1..n |-> <<>>]
    /\ outcome = [c \in 1..n |-> NotSent]
    /\ sends = [c \in 1..n |-> 0]
    /\ memory = [c \in 1..n |-> <<>>]
    /\ attempts = [c \in 1..n |-> 0]
    /\ nextUuid = 0

Init ==
    /\ args \in [{1} -> Arguments]
    /\ InitCalls(1, "build")
    /\ faults = MaxFaults
    /\ target = "any"
    /\ NoBatch
    /\ conversion = NoConversion

Next ==
    \/ \E c \in CallIds : Build(c)
    \/ \E c \in CallIds : TargetCompletes(c)
    \/ \E c \in CallIds : PersistRequestInTry(c)
    \/ \E c \in CallIds : ExceptEmpty(c)
    \/ \E c \in CallIds : ExceptPersistRequest(c)
    \/ \E c \in CallIds : ExceptPersistError(c)
    \/ \E c \in CallIds : AfterTry(c)
    \/ \E c \in CallIds : PersistResponse(c)
    \/ \E c \in CallIds : CallerCancels(c)

Spec == Init /\ [][Next]_vars

-----------------------------------------------------------------------------
(* One call of convert_values, followed configuration by configuration     *)

\* the prompts of the pieces convert_values is called with
ConvertedPrompts == {[value |-> <<3, 4>>, data_type |-> "text"],
                     [value |-> <<5>>, data_type |-> "image_path"]}

\* request_response.request_pieces of the call: pieces of one conversation
RequestPieces ==
    UNION {[1..n -> {PromptRequestPiece("user", p.value, p.data_type,
                                        CallerId(1), DefaultSequence) :
                        p \in ConvertedPrompts}] : n \in 1..MaxPrompts}

ConverterChains ==
    { <<"suffix", "flip">>, <<"flip", "suffix">>, <<"to_image">>,
      <<"to_image", "suffix">> }

Configurations ==
    { PromptConverterConfiguration(chain, indexes, data_types) :
          chain \in ConverterChains,
          indexes \in {{}, {1}},
          data_types \in {{}, {"text"}} }

\* the converter_configurations argument
ConverterConfigurations ==
    UNION {[1..n -> Configurations] : n \in 0..MaxConfigurations}

InitConvert ==
    /\ \E configurations \in ConverterConfigurations, pieces \in RequestPieces :
          conversion = [converter_configurations |-> configurations,
                        input |-> pieces,
                        pieces |-> pieces,
                        before |-> pieces,
                        done |-> 0,
                        status |-> "running"]
    /\ args = <<>>
    /\ InitCalls(0, "build")
    /\ faults = 0
    /\ target = "any"
    /\ NoBatch

\* lines 177-205: one iteration of `for converter_configuration in
\* converter_configurations`; the pieces are changed in place, so what a
\* raising converter leaves behind is what the caller's object holds
ConvertConfiguration ==
    /\ conversion.status = "running"
    /\ conversion.done < Len(conversion.converter_configurations)
    /\ LET converter_configuration ==
               conversion.converter_configurations[conversion.done + 1]
           r == ConvertPieces(converter_configuration, conversion.pieces, 1)
       IN  conversion' = [conversion EXCEPT
                              !.before = conversion.pieces,
                              !.pieces = r.pieces,
                              !.done = @ + 1,
                              !.status = IF r.ok THEN "running" ELSE "raised"]
    /\ UNCHANGED <<callVars, batchVars>>

\* the loop is exhausted: convert_values returns
ConvertReturns ==
    /\ conversion.status = "running"
    /\ conversion.done = Len(conversion.converter_configurations)
    /\ conversion' = [conversion EXCEPT !.status = "returned"]
    /\ UNCHANGED <<callVars, batchVars>>

NextConvert ==
    \/ ConvertConfiguration
    \/ ConvertReturns

SpecConvert == InitConvert /\ [][NextConvert]_vars

-----------------------------------------------------------------------------
(* send_prompt_batch_to_target_async and the batching helper *)

NormalizerRequest(seed_prompt_group, conversation_id) ==
    [seed_prompt_group |-> seed_prompt_group,
     request_converter_configurations |-> <<>>,
     response_converter_configurations |-> <<>>,
     conversation_id |-> conversation_id]

\* batch items whose conversation ids run in the opposite order
batch_items_reversed_ids(reqs) ==
    << [i \in 1..Len(reqs) |-> reqs[i].seed_prompt_group],
       [i \in 1..Len(reqs) |-> reqs[i].request_converter_configurations],
       [i \in 1..Len(reqs) |-> reqs[i].response_converter_configurations],
       [i \in 1..Len(reqs) |-> reqs[Len(reqs) + 1 - i].conversation_id] >>

\* lines 146-151: one list per keyword, each in the order of the requests
batch_items(reqs) ==
    << [i \in 1..Len(reqs) |-> reqs[i].seed_prompt_group],
       [i \in 1..Len(reqs) |-> reqs[i].request_converter_configurations],
       [i \in 1..Len(reqs) |-> reqs[i].response_converter_configurations],
       [i \in 1..Len(reqs) |-> reqs[i].conversation_id] >>

\* lines 153-158
batch_item_keys ==
    << "seed_prompt_group", "request_converter_configurations",
       "response_converter_configurations", "conversation_id" >>

\* a batch that hands the helper one more than its batch_size
BatchSizeArgument_PlusOne(size) == size + 1

\* line 162: the batch_size handed to the helper
BatchSizeArgument(size) == size

\* the keyword arguments the helper calls task_func with for item i:
\* task_arguments[k] bound to items_to_batch[k][i]; sequence keeps its default
TaskKwargs(items, keys, i) ==
    [k \in {keys[j] : j \in 1..Len(keys)} |->
        items[CHOOSE j \in 1..Len(keys) : keys[j] = k][i]]
    @@ [sequence |-> DefaultSequence]

Items == 1..Len(requests)

\* the dispatches that have started and not yet finished
InFlight == {i \in Items : pc[i] \notin {"idle"} \cup Terminated}

Pending == [kind |-> "pending", value |-> <<>>, error |-> NoError]

\* the helper starts the next item while fewer than batch_size are running
StartItem(i) ==
    /\ batchPc = "running"
    /\ i \in Items
    /\ pc[i] = "idle"
    /\ \A j \in 1..(i - 1) : pc[j] # "idle"
    /\ Cardinality(InFlight) < BatchSizeArgument(batch_size)
    /\ args' = [args EXCEPT ![i] =
                   TaskKwargs(batch_items(requests), batch_item_keys, i)]
    /\ pc' = [pc EXCEPT ![i] = "build"]
    /\ UNCHANGED <<request, response, ex, error_response, raised, result,
                   outcome, sends, memory, attempts, faults, target, nextUuid>>
    /\ UNCHANGED <<batchVars, conversion>>

\* a batch that swallows the helper's exception and returns nothing
BatchOutcome_Swallow(helper) ==
    IF helper.kind = "raised"
    THEN [kind |-> "returned", value |-> <<>>, error |-> NoError]
    ELSE helper

\* what send_prompt_batch_to_target_async hands its caller (lines 160-169):
\* the helper's return value or exception, as it is
BatchOutcome(helper) == helper

\* the helper takes a finished item's return value into slot i
CollectResult(i) ==
    /\ batchPc = "running"
    /\ i \in Items
    /\ pc[i] = "returned"
    /\ results[i] = Pending
    /\ results' = [results EXCEPT ![i] =
                      [kind |-> "result", value |-> result[i], error |-> NoError]]
    /\ outOfOrder' = (outOfOrder \/ \E j \in 1..(i - 1) : pc[j] \notin Terminated)
    /\ UNCHANGED <<requests, batch_size, policy, batchPc, batchOut>>
    /\ UNCHANGED <<callVars, conversion>>

\* policy (b): a failed item's exception is taken into slot i
CollectError(i) ==
    /\ batchPc = "running"
    /\ policy = "collect"
    /\ i \in Items
    /\ pc[i] = "raised"
    /\ results[i] = Pending
    /\ results' = [results EXCEPT ![i] =
                      [kind |-> "error", value |-> <<>>, error |-> raised[i]]]
    /\ UNCHANGED <<requests, batch_size, policy, batchPc, batchOut, outOfOrder>>
    /\ UNCHANGED <<callVars, conversion>>

\* policy (a): a failed item aborts the batch; the dispatches in flight are
\* cancelled and the failure is raised to the caller of the batch
Abort(i) ==
    /\ batchPc = "running"
    /\ policy = "abort"
    /\ i \in Items
    /\ pc[i] = "raised"
    /\ pc' = [j \in DOMAIN pc |-> IF j \in InFlight THEN "cancelled" ELSE pc[j]]
    /\ raised' = [j \in DOMAIN pc |->
                     IF j \in InFlight THEN CancelledError ELSE raised[j]]
    /\ batchPc' = "aborted"
    /\ batchOut' = BatchOutcome([kind |-> "raised", value |-> <<>>,
                                 error |-> raised[i]])
    /\ UNCHANGED <<args, request, response, ex, error_response, result,
                   outcome, sends, memory, attempts, faults, target, nextUuid>>
    /\ UNCHANGED <<requests, batch_size, policy, results, outOfOrder,
                   conversion>>

\* every slot is filled: the helper returns the slots in input order
Finish ==
    /\ batchPc = "running"
    /\ \A i \in Items : results[i] # Pending
    /\ batchPc' = "done"
    /\ batchOut' = BatchOutcome([kind |-> "returned", value |-> results,
                                 error |-> NoError])
    /\ UNCHANGED <<requests, batch_size, policy, results, outOfOrder>>
    /\ UNCHANGED <<callVars, conversion>>

\* the request lists of the model: item i sends the one text <<i>>; the
\* odd items name their conversation, the even ones leave it to be generated
BatchRequests(n) ==
    [i \in 1..n |->
        NormalizerRequest(<< [value |-> <<i>>, data_type |-> "text"] >>,
                          IF i % 2 = 1 THEN CallerId(i) ELSE NoneId)]

InitBatch ==
    /\ \E n \in 1..MaxRequests :
          /\ requests = BatchRequests(n)
          /\ InitCalls(n, "idle")
          /\ args = [c \in 1..n |-> TaskKwargs(<< <<>>, <<>>, <<>>, <<>> >>, <<>>, c)]
          /\ results = [i \in 1..n |-> Pending]
    /\ batch_size \in 1..MaxBatchSize
    /\ policy \in {"abort", "collect"}
    /\ batchPc = "running"
    /\ batchOut = [kind |-> "none", value |-> <<>>, error |-> NoError]
    /\ outOfOrder = FALSE
    /\ faults = 0
    /\ target \in {"echo_or_quota", "echo_or_empty"}
    /\ conversion = NoConversion

NextBatch ==
    \/ \E i \in CallIds : StartItem(i)
    \/ \E c \in CallIds : Build(c)
    \/ \E c \in CallIds : TargetCompletes(c)
    \/ \E c \in CallIds : PersistRequestInTry(c)
    \/ \E c \in CallIds : ExceptEmpty(c)
    \/ \E c \in CallIds : ExceptPersistRequest(c)
    \/ \E c \in CallIds : ExceptPersistError(c)
    \/ \E c \in CallIds : AfterTry(c)
    \/ \E c \in CallIds : PersistResponse(c)
    \/ \E i \in CallIds : CollectResult(i)
    \/ \E i \in CallIds : CollectError(i)
    \/ \E i \in CallIds : Abort(i)
    \/ Finish

SpecBatch == InitBatch /\ [][NextBatch]_vars

-----------------------------------------------------------------------------
(* Properties of send_prompt_async (checked under Spec)                    *)

\* the records of call c that hold the pieces of its request
RequestRecords(c) ==
    {k \in 1..Len(memory[c]) : memory[c][k][1].role = "user"}

\* the records of call c that hold response pieces
ResponseRecords(c) ==
    {k \in 1..Len(memory[c]) : memory[c][k][1].role = "assistant"}

\* exceptions raised by the hash, memory or converter collaborators
CollaboratorOrigins == {"hash", "memory", "converter"}

\* C1: when the target raised a failure other than the empty-result signal,
\* the call never returns; when it re-raises that failure, the memory already
\* holds the request and then a one-piece error response with error kind
\* "processing" whose content is the failure's message; any other exception
\* that leaves the call comes from a hash or memory step of the handler.
C1_FailurePersistedBeforeReraise ==
    \A c \in Calls :
        outcome[c].kind = "failure" =>
            /\ pc[c] # "returned"
            /\ pc[c] = "raised" /\ raised[c] = outcome[c].error =>
                  /\ Len(memory[c]) = 2
                  /\ memory[c][1] = request[c]
                  /\ \A k \in 1..Len(request[c]) : request[c][k].role = "user"
                  /\ Len(memory[c][2]) = 1
                  /\ memory[c][2][1].role = "assistant"
                  /\ memory[c][2][1].response_error = "processing"
                  /\ memory[c][2][1].converted_value = outcome[c].error.msg
                  /\ memory[c][2][1].conversation_id = request[c][1].conversation_id
            /\ pc[c] = "raised" /\ raised[c] # outcome[c].error =>
                  raised[c].origin \in {"hash", "memory"}

\* C1 witness: the target raised "quota exceeded", the call re-raised it, and
\* both records are in memory.
C1_Witness ==
    \E c \in Calls :
        /\ outcome[c] = Failed(QuotaExceeded)
        /\ pc[c] = "raised"
        /\ raised[c] = QuotaExceeded
        /\ Len(memory[c]) = 2
        /\ memory[c][2][1].converted_value = QuotaExceeded.msg

\* C2 (as claimed): every call that reached the target and has ended --
\* returned, raised or cancelled -- has persisted its request exactly once.
C2_RequestPersistedExactlyOnce ==
    \A c \in Calls :
        sends[c] >= 1 /\ pc[c] \in Terminated =>
            Cardinality(RequestRecords(c)) = 1

\* the same for the calls that no one cancelled: a hash or memory step that
\* raises twice lets the error out with no request persisted
C2_UncancelledRequestPersistedExactlyOnce ==
    \A c \in Calls :
        sends[c] >= 1 /\ pc[c] \in {"returned", "raised"} =>
            Cardinality(RequestRecords(c)) = 1

C4_CancelledRequestPersisted ==
    \A c \in Calls :
        pc[c] = "cancelled" /\ sends[c] = 1 /\ outcome[c] = NotSent =>
            attempts[c] >= 1

\* C8: when the target returned a response and the call returns, the memory
\* holds the request and then the response, the response is the target's
\* response after the response converters with every piece hashed, and the
\* call returns that persisted response.
C8_SuccessConvertedHashedPersisted ==
    \A c \in Calls :
        outcome[c].kind = "response" /\ pc[c] = "returned" =>
            LET converted ==
                    convert_values(args[c].response_converter_configurations,
                                   outcome[c].response)
            IN  /\ converted.ok
                /\ Len(memory[c]) = 2
                /\ memory[c][1] = request[c]
                /\ \A k \in 1..Len(request[c]) : request[c][k].role = "user"
                /\ memory[c][2] = result[c]
                /\ Len(result[c]) = Len(converted.pieces)
                /\ \A k \in 1..Len(result[c]) :
                      /\ result[c][k].converted_value =
                             converted.pieces[k].converted_value
                      /\ result[c][k].converted_value_data_type =
                             converted.pieces[k].converted_value_data_type
                      /\ result[c][k].converter_identifiers =
                             converted.pieces[k].converter_identifiers
                      /\ result[c][k].converted_value_sha256 =
                             Sha256(result[c][k].converted_value)

\* C8 witness: a returned response that the response converters changed.
C8_Witness ==
    \E c \in Calls :
        /\ outcome[c].kind = "response"
        /\ pc[c] = "returned"
        /\ result[c][1].converter_identifiers # <<>>
        /\ result[c][1].converted_value # outcome[c].response[1].converted_value
        /\ Len(memory[c]) = 2

\* C9: the built request has one piece per seed prompt, in group order, all
\* in one conversation: the caller's when the caller named one, a generated
\* one (no id a caller supplied, no other call's id) otherwise.
C9_BuildOnePiecePerPrompt ==
    \A c \in Calls :
        sends[c] >= 1 =>
            LET group == args[c].seed_prompt_group
                pieces == request[c]
            IN  /\ Len(pieces) = Len(group)
                /\ \A k \in 1..Len(group) :
                      /\ pieces[k].role = "user"
                      /\ pieces[k].original_value = group[k].value
                      /\ pieces[k].original_value_data_type = group[k].data_type
                      /\ pieces[k].conversation_id = pieces[1].conversation_id
                /\ Truthy(args[c].conversation_id) =>
                      pieces[1].conversation_id = args[c].conversation_id
                /\ ~Truthy(args[c].conversation_id) =>
                      /\ pieces[1].conversation_id[1] = "uuid"
                      /\ pieces[1].conversation_id \notin ConversationIds
                      /\ \A d \in Calls \ {c} :
                            sends[d] >= 1 =>
                                request[d][1].conversation_id #
                                    pieces[1].conversation_id

\* C9 witness: a request of two pieces built without a conversation id and
\* through request converters.
C9_Witness ==
    \E c \in Calls :
        /\ sends[c] = 1
        /\ Len(args[c].seed_prompt_group) = 2
        /\ args[c].conversation_id = NoneId
        /\ args[c].request_converter_configurations # <<>>
        /\ Len(request[c]) = 2

\* C10: every piece of every record handed to the memory carries the hash of
\* the converted value it has in that record.
C10_PersistedHashMatchesValue ==
    \A c \in Calls :
        \A k \in 1..Len(memory[c]) :
            \A j \in 1..Len(memory[c][k]) :
                memory[c][k][j].converted_value_sha256 =
                    Sha256(memory[c][k][j].converted_value)

\* C10 witness: a persisted response whose converted value the response
\* converters changed.
C10_Witness ==
    \E c \in Calls :
        /\ Len(memory[c]) = 2
        /\ memory[c][2][1].role = "assistant"
        /\ memory[c][2][1].converter_identifiers # <<>>
        /\ memory[c][2][1].converted_value # memory[c][2][1].original_value

-----------------------------------------------------------------------------
(* Properties of the batch (checked under SpecBatch)                       *)

\* C5: when the batch returns and no item raised, it returns one result per
\* request, and the result at index i is what the dispatch of request i
\* returned: that dispatch got the arguments of request i, and its response
\* is in the conversation request i named and echoes the prompt of request i.
C5_BatchResultsInInputOrder ==
    batchPc = "done" /\ (\A i \in Items : pc[i] = "returned") =>
        /\ batchOut.kind = "returned"
        /\ Len(batchOut.value) = Len(requests)
        /\ \A i \in Items :
              /\ batchOut.value[i].kind = "result"
              /\ batchOut.value[i].value = result[i]
              /\ args[i].seed_prompt_group = requests[i].seed_prompt_group
              /\ args[i].conversation_id = requests[i].conversation_id
              /\ result[i][1].conversation_id = request[i][1].conversation_id
              /\ Truthy(requests[i].conversation_id) =>
                    result[i][1].conversation_id = requests[i].conversation_id
              /\ outcome[i].kind = "response" =>
                    result[i][1].original_value =
                        requests[i].seed_prompt_group[1].value

\* C5 witness: a batch of three returned although a later item finished
\* before an earlier one.
C5_Witness ==
    /\ batchPc = "done"
    /\ Len(requests) = 3
    /\ outOfOrder
    /\ \A i \in Items : pc[i] = "returned"
    /\ batchOut.kind = "returned"

\* C6: at most batch_size dispatches are in flight; no request is sent to
\* the target twice; a running batch can always take a step; and a batch
\* that returned without a failed item has dispatched every request once.
C6_BoundedConcurrency ==
    /\ Cardinality(InFlight) <= batch_size
    /\ \A i \in Items : sends[i] <= 1
    /\ batchPc = "running" => ENABLED NextBatch
    /\ batchPc = "done" /\ (\A i \in Items : pc[i] = "returned") =>
          \A i \in Items : sends[i] = 1

\* C6 witness: a batch of three under batch_size 2 has returned, every
\* request dispatched once.
C6_Witness ==
    /\ batchPc = "done"
    /\ Len(requests) = 3
    /\ batch_size = 2
    /\ \A i \in Items : pc[i] = "returned" /\ sends[i] = 1

-----------------------------------------------------------------------------
(* Further properties of send_prompt_async (checked under Spec)            *)

\* C11: when the target returned None, a call that returns returns None,
\* its response was never replaced or converted, and the memory holds the
\* request, once, and nothing else; a call that raises on this path raises
\* a hash or memory exception.
C11_NoneResponseReturned ==
    \A c \in Calls :
        outcome[c].kind = "none" =>
            /\ response[c] = <<>>
            /\ pc[c] = "returned" =>
                  /\ result[c] = <<>>
                  /\ memory[c] = << request[c] >>
                  /\ \A k \in 1..Len(request[c]) : request[c][k].role = "user"
                  /\ ResponseRecords(c) = {}
            /\ pc[c] = "raised" => raised[c].origin \in {"hash", "memory"}

\* C11 witness: None returned although response converters are configured.
C11_Witness ==
    \E c \in Calls :
        /\ outcome[c].kind = "none"
        /\ pc[c] = "returned"
        /\ args[c].response_converter_configurations # <<>>
        /\ Len(memory[c]) = 1

\* the response the handler of EmptyResponseException synthesizes
SynthesizedEmpty(c) ==
    construct_response_from_request(request[c][1], <<>>, "text", "empty")

\* C14 (as claimed): when the target signalled an empty result and the call
\* returns, the response persisted and returned is the synthesized one as
\* synthesized: one piece of empty text, error kind "empty", no converter
\* applied.
C14_EmptyResponseUnconverted ==
    \A c \in Calls :
        outcome[c].kind = "empty" /\ pc[c] = "returned" =>
            /\ Len(result[c]) = 1
            /\ result[c][1].response_error = "empty"
            /\ result[c][1].converted_value = <<>>
            /\ result[c][1].converted_value_data_type = "text"
            /\ result[c][1].converter_identifiers = <<>>
            /\ memory[c] = << request[c], HashAll(SynthesizedEmpty(c)) >>

\* C15: a call that did not call the target has persisted nothing and has
\* attempted no persistence, and when it has raised, it raised the request
\* converter's exception.
C15_BuildErrorBeforeAnyEffect ==
    \A c \in Calls :
        sends[c] = 0 =>
            /\ memory[c] = <<>>
            /\ attempts[c] = 0
            /\ outcome[c] = NotSent
            /\ pc[c] \in {"build", "raised"}
            /\ pc[c] = "raised" =>
                  /\ raised[c] = ConverterError
                  /\ ~convert_values(args[c].request_converter_configurations,
                                     Entries(args[c].seed_prompt_group,
                                             args[c].conversation_id,
                                             args[c].sequence)).ok

\* C15 witness: a request converter raised and the call propagated it.
C15_Witness ==
    \E c \in Calls :
        /\ pc[c] = "raised"
        /\ raised[c] = ConverterError
        /\ sends[c] = 0
        /\ memory[c] = <<>>

\* C16: a call calls the target at most once, and exactly once in every
\* outcome of the target.
C16_TargetCalledOnce ==
    \A c \in Calls :
        /\ sends[c] <= 1
        /\ outcome[c].kind # "not_sent" => sends[c] = 1
        /\ pc[c] \in Terminated /\ raised[c] # ConverterError
              /\ raised[c] # CancelledError => sends[c] = 1

\* C16 witness: a call whose target signalled an empty result (or failed)
\* has ended with one call of the target.
C16_Witness ==
    \E c \in Calls :
        /\ outcome[c].kind \in {"empty", "failure"}
        /\ pc[c] \in {"returned", "raised"}
        /\ sends[c] = 1

\* C17: nothing is persisted before the target's call has returned or
\* raised, and the first record persisted is the request: every response
\* record comes after it.
C17_RequestPersistedFirst ==
    \A c \in Calls :
        /\ outcome[c].kind = "not_sent" => memory[c] = <<>>
        /\ memory[c] # <<>> => 1 \in RequestRecords(c)
        /\ \A k \in ResponseRecords(c) :
              \E j \in RequestRecords(c) : j < k

\* C17 witness: a response record persisted after the request.
C17_Witness ==
    \E c \in Calls :
        /\ Len(memory[c]) = 2
        /\ 1 \in RequestRecords(c)
        /\ 2 \in ResponseRecords(c)
        /\ pc[c] = "returned"

\* the call ended in an exception of the response's hash or memory step
\* (line 117)
ResponsePersistenceRaised(c) ==
    /\ pc[c] = "raised"
    /\ raised[c].origin \in {"hash", "memory"}
    /\ outcome[c].kind \in {"response", "empty"}
    /\ response[c] # <<>>
    /\ ex[c] = NoError

\* the call ended in an exception of a response converter (line 115)
ResponseConverterRaised(c) ==
    /\ pc[c] = "raised"
    /\ raised[c] = ConverterError
    /\ sends[c] = 1

\* C19: when a response converter or the response's hash or memory step
\* raises, the call raises that exception with the request persisted once
\* and nothing else persisted: no response record, no "processing" record.
C19_LateErrorLeavesRequestOnly ==
    \A c \in Calls :
        ResponseConverterRaised(c) \/ ResponsePersistenceRaised(c) =>
            /\ memory[c] = << request[c] >>
            /\ \A k \in 1..Len(request[c]) : request[c][k].role = "user"
            /\ ResponseRecords(c) = {}
            /\ error_response[c] = <<>>

\* C19 witness: a response converter raised on the synthesized empty
\* response.
C19_Witness ==
    \E c \in Calls :
        /\ ResponseConverterRaised(c)
        /\ outcome[c].kind = "empty"
        /\ Len(memory[c]) = 1

\* a second C19 case: the response's own hash or memory step raised
C19_PersistenceWitness ==
    \E c \in Calls :
        /\ ResponsePersistenceRaised(c)
        /\ outcome[c].kind = "response"
        /\ Len(memory[c]) = 1

-----------------------------------------------------------------------------
(* Properties of convert_values (checked under SpecConvert)                *)

\* the configuration of the iteration that ran last
LastConfiguration ==
    conversion.converter_configurations[conversion.done]

\* the filter as the configuration states it: the piece's 0-based position
\* is not among a non-empty indexes_to_apply, or its current converted data
\* type is not among a non-empty prompt_data_types_to_apply
OutsideFilter(converter_configuration, k, piece) ==
    \/ /\ converter_configuration.indexes_to_apply # {}
       /\ (k - 1) \notin converter_configuration.indexes_to_apply
    \/ /\ converter_configuration.prompt_data_types_to_apply # {}
       /\ piece.converted_value_data_type \notin
              converter_configuration.prompt_data_types_to_apply

\* the first n converters of a chain composed left to right on (text, type)
RECURSIVE ComposePrefix(_, _, _, _)
ComposePrefix(chain, n, text, data_type) ==
    IF n = 0
    THEN [ok |-> TRUE, output_text |-> text, output_type |-> data_type]
    ELSE LET prefix == ComposePrefix(chain, n - 1, text, data_type)
         IN  IF ~prefix.ok
             THEN prefix
             ELSE convert_tokens(chain[n], prefix.output_text, prefix.output_type)

Compose(chain, piece) ==
    ComposePrefix(chain, Len(chain), piece.converted_value,
                  piece.converted_value_data_type)

\* C12: a piece outside a configuration's filter keeps its converted value,
\* converted data type and converter identifiers through that configuration;
\* a piece inside the filter (every piece, when both sets are empty) has the
\* configuration applied to it.
C12_FilterFrame ==
    conversion.done >= 1 =>
        \A k \in 1..Len(conversion.pieces) :
            LET b == conversion.before[k]
                a == conversion.pieces[k]
            IN  /\ OutsideFilter(LastConfiguration, k, b) =>
                      /\ a.converted_value = b.converted_value
                      /\ a.converted_value_data_type = b.converted_value_data_type
                      /\ a.converter_identifiers = b.converter_identifiers
                /\ ~OutsideFilter(LastConfiguration, k, b)
                      /\ conversion.status # "raised" =>
                      a.converter_identifiers =
                          b.converter_identifiers
                              \o Identifiers(LastConfiguration.converters)

\* C12 witness: of two pieces an index filter lets the second through and
\* leaves the first as it was.
C12_Witness ==
    /\ conversion.done >= 1
    /\ conversion.status # "raised"
    /\ Len(conversion.pieces) = 2
    /\ LastConfiguration.indexes_to_apply = {1}
    /\ conversion.pieces[1] = conversion.before[1]
    /\ conversion.pieces[2].converted_value # conversion.before[2].converted_value

\* C13: a piece a configuration was applied to holds the left-to-right
\* composition of the chain's converters on its previous converted value
\* and type; the configurations take effect in list order (the pieces a call
\* leaves are those of convert_values on the whole list); a type filter
\* looks at the type the earlier configurations produced.
C13_ChainComposition ==
    /\ conversion.done >= 1 =>
          \A k \in 1..Len(conversion.pieces) :
              LET b == conversion.before[k]
                  a == conversion.pieces[k]
                  composed == Compose(LastConfiguration.converters, b)
                  data_types == LastConfiguration.prompt_data_types_to_apply
              IN  /\ a.converter_identifiers # b.converter_identifiers
                        /\ composed.ok =>
                        /\ a.converted_value = composed.output_text
                        /\ a.converted_value_data_type = composed.output_type
                  /\ data_types # {}
                        /\ b.converted_value_data_type \notin data_types =>
                        a = b
    /\ conversion.status \in {"returned", "raised"} =>
          LET whole == convert_values(conversion.converter_configurations,
                                      conversion.input)
          IN  /\ conversion.pieces = whole.pieces
              /\ whole.ok <=> conversion.status = "returned"

\* C13 witness: the chain [suffix, flip] was applied to a piece and left a
\* value that [flip, suffix] would not have left.
C13_Witness ==
    /\ conversion.done >= 1
    /\ LastConfiguration.converters = <<"suffix", "flip">>
    /\ \E k \in 1..Len(conversion.pieces) :
          /\ conversion.pieces[k].converter_identifiers
                 # conversion.before[k].converter_identifiers
          /\ conversion.pieces[k].converted_value
                 = Compose(<<"suffix", "flip">>, conversion.before[k]).output_text
          /\ Compose(<<"flip", "suffix">>, conversion.before[k]).ok
          /\ conversion.pieces[k].converted_value
                 # Compose(<<"flip", "suffix">>, conversion.before[k]).output_text

\* a second C13 case: a text piece an earlier configuration turned into an
\* image is skipped by a later configuration for text
C13_TypeFilterWitness ==
    /\ conversion.done = 2
    /\ LastConfiguration.prompt_data_types_to_apply = {"text"}
    /\ \E k \in 1..Len(conversion.pieces) :
          /\ conversion.input[k].converted_value_data_type = "text"
          /\ conversion.before[k].converted_value_data_type = "image_path"
          /\ conversion.pieces[k] = conversion.before[k]

\* what a configuration may have done to a piece if the identifiers are to
\* name the converters whose output the piece holds: nothing, or the
\* identifiers of the whole chain together with the chain's final output
ConsistentWithChain(chain, b, a) ==
    \/ /\ a.converted_value = b.converted_value
       /\ a.converted_value_data_type = b.converted_value_data_type
       /\ a.converter_identifiers = b.converter_identifiers
    \/ /\ a.converter_identifiers = b.converter_identifiers \o Identifiers(chain)
       /\ Compose(chain, b).ok
       /\ a.converted_value = Compose(chain, b).output_text
       /\ a.converted_value_data_type = Compose(chain, b).output_type

\* C18 (as claimed): after every configuration, complete or not, each
\* piece's converter identifiers name exactly the converters whose output
\* is in its converted value and type; a chain that did not complete left
\* the piece as it was.
C18_IdentifiersMatchAppliedConverters ==
    conversion.done >= 1 =>
        \A k \in 1..Len(conversion.pieces) :
            ConsistentWithChain(LastConfiguration.converters,
                                conversion.before[k], conversion.pieces[k])

\* the same for the configurations that completed
C18_CompletedChainsConsistent ==
    conversion.done >= 1 /\ conversion.status # "raised" =>
        \A k \in 1..Len(conversion.pieces) :
            ConsistentWithChain(LastConfiguration.converters,
                                conversion.before[k], conversion.pieces[k])

====
